---- MODULE Spec2Model ----
(***************************************************************************)
(* Colour palette extraction (src/utils/extractColors.js) and the App      *)
(* component that issues extraction requests (App.jsx).                    *)
(*                                                                         *)
(* Five specifications share the variables below:                          *)
(*   SpecPixels  getPixels applied to a decoded RGBA buffer                *)
(*   SpecCut     medianCut applied to a filtered pixel list and a depth    *)
(*   Spec        one extractColors call: onload / onerror settle a promise *)
(*   SpecApp     the App component: handlePick, handleReextract, clearAll, *)
(*               the slider, and the completions of in-flight requests     *)
(*   SpecRequests  SpecApp with only the steps that issue and complete     *)
(*               extraction requests                                       *)
(*                                                                         *)
(* Numbers.  Channels are integers 0..255.  The source keeps saturation    *)
(* and score in doubles; here they are exact rationals <<num, den>> in     *)
(* lowest terms, so equal scores are equal and the order of two scores is  *)
(* the order of the real numbers they stand for.                           *)
(***************************************************************************)
EXTENDS Integers, Sequences, FiniteSets, TLC

VARIABLES
    pc,            \* position of the operation under study
    image,         \* [ok: it decodes, width, height, data: getImageData's RGBA pixels]
    colorCount,    \* extractColors' colorCount / App's colorCount state
    pixels,        \* the list getPixels returned (medianCut's input)
    depth,         \* medianCut's depth argument
    buckets,       \* the list medianCut returned
    steps,         \* SpecCut: one record per splitting call of medianCut
    ranked,        \* colors after colors.sort(...), before slice
    calls,         \* the resolve / reject calls made on the promise, in order
    imageUrl,      \* App state: object URL of the picked file, 0 for null
    colors,        \* App state: the palette shown
    isExtracting,  \* App state
    error,         \* App state: error text, "" for none
    requests,      \* extractColors calls made so far: [url, colorCount], in order
    inflight,      \* indices in requests of the promises not settled yet
    urls,          \* object URLs created so far: urls[u] is the file behind URL u
    revoked        \* object URLs passed to URL.revokeObjectURL

vars == <<pc, image, colorCount, pixels, depth, buckets, steps, ranked, calls,
          imageUrl, colors, isExtracting, error, requests, inflight, urls, revoked>>

pipelineVars == <<image, pixels, depth, buckets, steps, ranked, calls>>
appVars == <<imageUrl, colors, isExtracting, error, requests, inflight, urls, revoked>>

(***************************************************************************)
(* Bounds of the model.                                                    *)
(***************************************************************************)
MaxImagePixels == 2     \* SpecPixels: pixels in the decoded buffer
MaxCutPixels == 4       \* SpecCut: pixels handed to medianCut
MaxCutDepth == 3        \* SpecCut: depth handed to medianCut
MaxPixels == 5          \* Spec: pixels in the decoded buffer
MaxRequests == 3        \* SpecApp: extractColors calls issued in one run

(***************************************************************************)
(* Numbers the App fixes: the slider's min and max and the initial         *)
(* colorCount.                                                             *)
(***************************************************************************)
SliderMin == 3
SliderMax == 12
DefaultColorCount == 6

(***************************************************************************)
(* Exact rationals <<num, den>>, num >= 0, den > 0, in lowest terms.       *)
(***************************************************************************)
RECURSIVE GCD(_, _)
GCD(a, b) == IF b = 0 THEN a ELSE GCD(b, a % b)

Frac(n, d) == LET g == GCD(n, d) IN <<n \div g, d \div g>>

FZero == <<0, 1>>
FOne == <<1, 1>>
FAdd(x, y) == Frac(x[1] * y[2] + y[1] * x[2], x[2] * y[2])
FMulInt(x, k) == Frac(x[1] * k, x[2])
FDivInt(x, k) == Frac(x[1], x[2] * k)
FLess(x, y) == x[1] * y[2] < y[1] * x[2]

Max3(a, b, c) == IF a >= b /\ a >= c THEN a ELSE IF b >= c THEN b ELSE c
Min3(a, b, c) == IF a <= b /\ a <= c THEN a ELSE IF b <= c THEN b ELSE c

(***************************************************************************)
(* Math.round(sum / n) for sum >= 0, n > 0: halves round up.               *)
(***************************************************************************)
RoundDiv(sum, n) == (2 * sum + n) \div (2 * n)

(***************************************************************************)
(* Math.ceil(Math.log2(n)) for n >= 1: the least k with 2^k >= n.          *)
(***************************************************************************)
CeilLog2(n) == CHOOSE k \in 0..8 : 2^k >= n /\ (k = 0 \/ 2^(k - 1) < n)

(***************************************************************************)
(* rgbToHex: '#' and, per channel, toString(16) padded to two digits.      *)
(***************************************************************************)
HexDigits == <<"0", "1", "2", "3", "4", "5", "6", "7",
               "8", "9", "a", "b", "c", "d", "e", "f">>

toString16(x) ==
    IF x < 16 THEN HexDigits[x + 1]
    ELSE HexDigits[(x \div 16) + 1] \o HexDigits[(x % 16) + 1]

\* Faulty variant of padStart2: no padding.
padStart2Unpadded(s) == s

padStart2(s) == IF Len(s) < 2 THEN "0" \o s ELSE s

rgbToHex(r, g, b) ==
    "#" \o padStart2(toString16(r)) \o padStart2(toString16(g))
        \o padStart2(toString16(b))

(***************************************************************************)
(* getSaturation: (max - min) / max, 0 when max = 0.                       *)
(***************************************************************************)
getSaturation(r, g, b) ==
    LET max == Max3(r, g, b)
        min == Min3(r, g, b)
    IN  IF max = 0 THEN FZero ELSE Frac(max - min, max)

(***************************************************************************)
(* getPixels.  keepPixel is the loop body's two `continue` tests: the      *)
(* pixel is skipped when a < 128 or when brightness = (r + g + b) / 3 is   *)
(* < 5 or > 250.  brightness is compared as the fraction (r + g + b) / 3.  *)
(***************************************************************************)
\* Faulty variant of keepPixel: brightness exactly 5 or 250 is skipped too.
keepPixelStrictBounds(r, g, b, a) ==
    LET brightness == <<r + g + b, 3>>
    IN  ~(a < 128) /\ ~(~FLess(<<5, 1>>, brightness) \/ ~FLess(brightness, <<250, 1>>))

keepPixel(r, g, b, a) ==
    LET brightness == <<r + g + b, 3>>
    IN  ~(a < 128) /\ ~(FLess(brightness, <<5, 1>>) \/ FLess(<<250, 1>>, brightness))

RECURSIVE getPixels(_)
getPixels(data) ==
    IF data = <<>> THEN <<>>
    ELSE LET n == Len(data)
             p == data[n]
             before == getPixels(SubSeq(data, 1, n - 1))
         IN  IF keepPixel(p[1], p[2], p[3], p[4])
             THEN Append(before, <<p[1], p[2], p[3], getSaturation(p[1], p[2], p[3])>>)
             ELSE before

(***************************************************************************)
(* getColorRange: max - min of one channel (1 = r, 2 = g, 3 = b), the      *)
(* running min starting at 255 and the running max at 0.                   *)
(***************************************************************************)
RECURSIVE channelMin(_, _)
channelMin(pxs, channel) ==
    IF pxs = <<>> THEN 255
    ELSE LET m == channelMin(Tail(pxs), channel)
         IN  IF Head(pxs)[channel] < m THEN Head(pxs)[channel] ELSE m

RECURSIVE channelMax(_, _)
channelMax(pxs, channel) ==
    IF pxs = <<>> THEN 0
    ELSE LET m == channelMax(Tail(pxs), channel)
         IN  IF Head(pxs)[channel] > m THEN Head(pxs)[channel] ELSE m

getColorRange(pxs, channel) == channelMax(pxs, channel) - channelMin(pxs, channel)

(***************************************************************************)
(* medianCut, lines 111-123: the channel to sort by.                       *)
(***************************************************************************)
\* Faulty variant of chooseChannel: ties go to blue, then green, then red.
chooseChannelBlueFirst(rRange, gRange, bRange) ==
    IF bRange >= rRange /\ bRange >= gRange THEN 3
    ELSE IF gRange >= rRange /\ gRange >= bRange THEN 2
    ELSE 1

chooseChannel(rRange, gRange, bRange) ==
    IF rRange >= gRange /\ rRange >= bRange THEN 1
    ELSE IF gRange >= rRange /\ gRange >= bRange THEN 2
    ELSE 3

(***************************************************************************)
(* pixels.sort((a, b) => a[channel] - b[channel]): a stable ascending      *)
(* sort, as an insertion sort that puts each element after its equals.     *)
(***************************************************************************)
RECURSIVE sortByChannel(_, _)
sortByChannel(pxs, channel) ==
    IF pxs = <<>> THEN <<>>
    ELSE LET n == Len(pxs)
             x == pxs[n]
             s == sortByChannel(SubSeq(pxs, 1, n - 1), channel)
             k == Cardinality({i \in 1..Len(s) : s[i][channel] <= x[channel]})
         IN  SubSeq(s, 1, k) \o <<x>> \o SubSeq(s, k + 1, Len(s))

(***************************************************************************)
(* Math.floor(pixels.length / 2), pixels.slice(0, mid), pixels.slice(mid). *)
(***************************************************************************)
midpoint(pxs) == Len(pxs) \div 2

sliceTo(s, end) == SubSeq(s, 1, IF end < Len(s) THEN end ELSE Len(s))

\* Faulty variant of sliceFrom: the upper half starts one element late.
sliceFromSkipping(s, start) == SubSeq(s, start + 2, Len(s))

sliceFrom(s, start) == SubSeq(s, start + 1, Len(s))

(***************************************************************************)
(* medianCut's base case on a non-empty list (lines 88-108): the rounded   *)
(* average colour, the mean saturation and the number of pixels.           *)
(***************************************************************************)
RECURSIVE sumChannel(_, _)
sumChannel(pxs, channel) ==
    IF pxs = <<>> THEN 0 ELSE Head(pxs)[channel] + sumChannel(Tail(pxs), channel)

RECURSIVE sumSaturation(_)
sumSaturation(pxs) ==
    IF pxs = <<>> THEN FZero ELSE FAdd(Head(pxs)[4], sumSaturation(Tail(pxs)))

\* Faulty variant of averageBucket: green is averaged from the red channel.
averageBucketRedForGreen(pxs) ==
    [r |-> RoundDiv(sumChannel(pxs, 1), Len(pxs)),
     g |-> RoundDiv(sumChannel(pxs, 1), Len(pxs)),
     b |-> RoundDiv(sumChannel(pxs, 3), Len(pxs)),
     saturation |-> FDivInt(sumSaturation(pxs), Len(pxs)),
     count |-> Len(pxs)]

averageBucket(pxs) ==
    [r |-> RoundDiv(sumChannel(pxs, 1), Len(pxs)),
     g |-> RoundDiv(sumChannel(pxs, 2), Len(pxs)),
     b |-> RoundDiv(sumChannel(pxs, 3), Len(pxs)),
     saturation |-> FDivInt(sumSaturation(pxs), Len(pxs)),
     count |-> Len(pxs)]

(***************************************************************************)
(* medianCut.                                                              *)
(***************************************************************************)
RECURSIVE medianCut(_, _)
medianCut(pxs, d) ==
    IF d = 0 \/ Len(pxs) = 0 THEN
        IF Len(pxs) = 0 THEN <<>> ELSE <<averageBucket(pxs)>>
    ELSE
        LET channel == chooseChannel(getColorRange(pxs, 1), getColorRange(pxs, 2),
                                     getColorRange(pxs, 3))
            srt == sortByChannel(pxs, channel)
            mid == midpoint(srt)
        IN  medianCut(sliceTo(srt, mid), d - 1) \o medianCut(sliceFrom(srt, mid), d - 1)

(***************************************************************************)
(* The recursive calls of medianCut(pxs, d) that split, in call order:     *)
(* what each was given, the channel it chose, and the two halves it        *)
(* recursed on.                                                            *)
(***************************************************************************)
RECURSIVE medianCutSteps(_, _)
medianCutSteps(pxs, d) ==
    IF d = 0 \/ Len(pxs) = 0 THEN <<>>
    ELSE
        LET channel == chooseChannel(getColorRange(pxs, 1), getColorRange(pxs, 2),
                                     getColorRange(pxs, 3))
            srt == sortByChannel(pxs, channel)
            mid == midpoint(srt)
            lower == sliceTo(srt, mid)
            upper == sliceFrom(srt, mid)
        IN  <<[given |-> pxs, depth |-> d, channel |-> channel, mid |-> mid,
               lower |-> lower, upper |-> upper]>>
            \o medianCutSteps(lower, d - 1) \o medianCutSteps(upper, d - 1)

(***************************************************************************)
(* extractColors, lines 146-161: the canvas size.  The longer edge is      *)
(* brought down to maxSize and the other edge is Math.round-ed.            *)
(***************************************************************************)
maxSize == 250

canvasSize(w, h) ==
    IF w > h THEN
        IF w > maxSize THEN <<maxSize, RoundDiv(h * maxSize, w)>> ELSE <<w, h>>
    ELSE
        IF h > maxSize THEN <<RoundDiv(w * maxSize, h), maxSize>> ELSE <<w, h>>

(***************************************************************************)
(* ctx.getImageData(0, 0, width, height) throws IndexSizeError when width  *)
(* or height is 0; the exception leaves the onload handler.                *)
(***************************************************************************)
getImageDataThrows(w, h) ==
    LET size == canvasSize(w, h) IN size[1] = 0 \/ size[2] = 0

(***************************************************************************)
(* extractColors, line 178: depth = Math.ceil(Math.log2(colorCount)) + 2.  *)
(***************************************************************************)
depthFor(cc) == CeilLog2(cc) + 2

(***************************************************************************)
(* extractColors, lines 182-187: score = count * (1 + saturation * 2) and  *)
(* colors.sort((a, b) => scoreB - scoreA), a stable descending sort.       *)
(***************************************************************************)
\* Faulty variant of score: the saturation weight is left out.
scoreCountOnly(color) == <<color.count, 1>>

score(color) == FMulInt(FAdd(FOne, FMulInt(color.saturation, 2)), color.count)

RECURSIVE sortByScore(_)
sortByScore(cs) ==
    IF cs = <<>> THEN <<>>
    ELSE LET n == Len(cs)
             x == cs[n]
             s == sortByScore(SubSeq(cs, 1, n - 1))
             k == Cardinality({i \in 1..Len(s) : ~FLess(score(s[i]), score(x))})
         IN  SubSeq(s, 1, k) \o <<x>> \o SubSeq(s, k + 1, Len(s))

(***************************************************************************)
(* extractColors, line 190: colors.slice(0, colorCount).                   *)
(***************************************************************************)
\* Faulty variant of takeColors: one entry too many.
takeColorsOneMore(cs, cc) == sliceTo(cs, cc + 1)

takeColors(cs, cc) == sliceTo(cs, cc)

(***************************************************************************)
(* extractColors, lines 193-208: a palette entry.  Of the derived fields   *)
(* only hex is kept; hsl, contrast and the rgb / hsl strings are functions *)
(* of r, g, b that nothing here reads.                                     *)
(***************************************************************************)
paletteEntry(color) ==
    [r |-> color.r, g |-> color.g, b |-> color.b,
     hex |-> rgbToHex(color.r, color.g, color.b)]

toPalette(cs) == [i \in 1..Len(cs) |-> paletteEntry(cs[i])]

NoValidPixels == "No valid pixels found in image"
FailedToLoad == "Failed to load image"

Reject(msg) == [kind |-> "reject", message |-> msg, value |-> <<>>]
Resolve(v) == [kind |-> "resolve", message |-> "", value |-> v]

(***************************************************************************)
(* The onload handler from getPixels on (lines 169-210), given the buffer  *)
(* getImageData returned: what it computed and the calls it made on the    *)
(* promise.  The empty list is rejected and the handler returns.           *)
(***************************************************************************)
onload(data, cc) ==
    LET pxs == getPixels(data)
        d == depthFor(cc)
        bs == medianCut(pxs, d)
        rk == sortByScore(bs)
    IN  IF Len(pxs) = 0
        THEN [pixels |-> pxs, depth |-> 0, buckets |-> <<>>, ranked |-> <<>>,
              calls |-> <<Reject(NoValidPixels)>>]
        ELSE [pixels |-> pxs, depth |-> d, buckets |-> bs, ranked |-> rk,
              calls |-> <<Resolve(toPalette(takeColors(rk, cc)))>>]

(***************************************************************************)
(* A promise is settled by the first resolve / reject call made on it.     *)
(***************************************************************************)
Settled == calls # <<>>
Resolved == Settled /\ calls[1].kind = "resolve"
Rejected == Settled /\ calls[1].kind = "reject"
result == IF Resolved THEN calls[1].value ELSE <<>>

(***************************************************************************)
(* Sequences of length lo..hi over S.                                      *)
(***************************************************************************)
SeqsOf(S, lo, hi) == UNION {[1..n -> S] : n \in lo..hi}

appIdle ==
    /\ imageUrl = 0 /\ colors = <<>> /\ isExtracting = FALSE /\ error = ""
    /\ requests = <<>> /\ inflight = {} /\ urls = <<>> /\ revoked = {}

NoImage == [ok |-> FALSE, width |-> 0, height |-> 0, data |-> <<>>]

pipelineIdle ==
    /\ image = NoImage /\ pixels = <<>> /\ depth = 0 /\ buckets = <<>>
    /\ steps = <<>> /\ ranked = <<>> /\ calls = <<>>

(***************************************************************************)
(* SpecPixels: getPixels on every buffer of up to MaxImagePixels pixels    *)
(* whose colours sit on and around the two brightness limits and whose     *)
(* alphas sit on and around 128.                                           *)
(***************************************************************************)
EdgeColors ==
    { <<0, 0, 0>>, <<4, 5, 5>>, <<5, 5, 5>>, <<5, 5, 6>>, <<15, 0, 0>>,
      <<128, 128, 128>>, <<250, 250, 249>>, <<250, 250, 250>>,
      <<250, 250, 251>>, <<255, 255, 240>>, <<255, 255, 241>>,
      <<255, 255, 255>> }
EdgeAlphas == {0, 127, 128, 255}
EdgePixels == {<<c[1], c[2], c[3], a>> : c \in EdgeColors, a \in EdgeAlphas}

InitPixels ==
    /\ pc = "start"
    /\ colorCount = DefaultColorCount
    /\ image \in {[ok |-> TRUE, width |-> Len(d), height |-> 1, data |-> d] :
                    d \in SeqsOf(EdgePixels, 1, MaxImagePixels)}
    /\ pixels = <<>> /\ depth = 0 /\ buckets = <<>>
    /\ steps = <<>> /\ ranked = <<>> /\ calls = <<>>
    /\ appIdle

GetPixels ==
    /\ pc = "start"
    /\ pixels' = getPixels(image.data)
    /\ pc' = "done"
    /\ UNCHANGED <<image, colorCount, depth, buckets, steps, ranked, calls>>
    /\ UNCHANGED appVars

NextPixels == GetPixels

SpecPixels == InitPixels /\ [][NextPixels]_vars

(***************************************************************************)
(* SpecCut: medianCut on every list of up to MaxCutPixels pixels that      *)
(* getPixels can produce from CutColors, at every depth 0..MaxCutDepth.    *)
(***************************************************************************)
CutColors ==
    { <<255, 0, 0>>, <<0, 0, 255>>, <<0, 255, 0>>, <<128, 128, 128>>,
      <<128, 64, 64>>, <<0, 0, 128>> }
CutPixels == {<<c[1], c[2], c[3], getSaturation(c[1], c[2], c[3])>> : c \in CutColors}

InitCut ==
    /\ pc = "start"
    /\ colorCount = DefaultColorCount
    /\ image = NoImage
    /\ pixels \in SeqsOf(CutPixels, 0, MaxCutPixels)
    /\ depth \in 0..MaxCutDepth
    /\ buckets = <<>> /\ steps = <<>> /\ ranked = <<>> /\ calls = <<>>
    /\ appIdle

MedianCut ==
    /\ pc = "start"
    /\ buckets' = medianCut(pixels, depth)
    /\ steps' = medianCutSteps(pixels, depth)
    /\ pc' = "done"
    /\ UNCHANGED <<image, colorCount, pixels, depth, ranked, calls>>
    /\ UNCHANGED appVars

NextCut == MedianCut

SpecCut == InitCut /\ [][NextCut]_vars

(***************************************************************************)
(* Spec: one extractColors(imageUrl, colorCount) call.  The image either   *)
(* fails to load (onerror) or loads with a natural size and, once drawn on *)
(* the canvas, the buffer getImageData returns for the canvas size.        *)
(***************************************************************************)

SampleColors == { <<255, 0, 0>>, <<0, 0, 255>>, <<128, 64, 64>> }
SamplePixels == {<<c[1], c[2], c[3], 255>> : c \in SampleColors} \cup {<<0, 0, 0, 0>>}

SliverSizes == { <<1, 501>>, <<501, 1>> }

LoadedImages ==
    {[ok |-> TRUE, width |-> Len(d), height |-> 1, data |-> d] :
        d \in SeqsOf(SamplePixels, 1, MaxPixels)}
    \cup {[ok |-> TRUE, width |-> s[1], height |-> s[2], data |-> <<>>] : s \in SliverSizes}

Init ==
    /\ pc = "loading"
    /\ colorCount \in 1..SliderMax
    /\ image \in LoadedImages \cup {NoImage}
    /\ pixels = <<>> /\ depth = 0 /\ buckets = <<>>
    /\ steps = <<>> /\ ranked = <<>> /\ calls = <<>>
    /\ appIdle

OnloadThrows ==
    /\ pc = "loading"
    /\ image.ok
    /\ getImageDataThrows(image.width, image.height)
    /\ pc' = "threw"
    /\ UNCHANGED <<image, colorCount, pixels, depth, buckets, steps, ranked, calls>>
    /\ UNCHANGED appVars

Onload ==
    /\ pc = "loading"
    /\ image.ok
    /\ ~getImageDataThrows(image.width, image.height)
    /\ LET out == onload(image.data, colorCount)
       IN  /\ pixels' = out.pixels
           /\ depth' = out.depth
           /\ buckets' = out.buckets
           /\ ranked' = out.ranked
           /\ calls' = calls \o out.calls
    /\ pc' = "returned"
    /\ UNCHANGED <<image, colorCount, steps>>
    /\ UNCHANGED appVars

Onerror ==
    /\ pc = "loading"
    /\ ~image.ok
    /\ calls' = Append(calls, Reject(FailedToLoad))
    /\ pc' = "returned"
    /\ UNCHANGED <<image, colorCount, pixels, depth, buckets, steps, ranked>>
    /\ UNCHANGED appVars

Next == Onload \/ OnloadThrows \/ Onerror

Spec == Init /\ [][Next]_vars

(***************************************************************************)
(* SpecApp: the App component.  State setters called in one handler run    *)
(* take effect together; an await on extractColors ends the step, and the  *)
(* rest of extractPalette runs when that promise settles.  copiedIndex and *)
(* colorFormat, which no request reads or writes, are left out.            *)
(*                                                                         *)
(* Files the user can pick: a 4x1 photo, a 1x1 fully transparent image, an *)
(* image file that does not decode, an image 1 pixel wide and 501 high,    *)
(* and a file that is not an image.  The slider is moved between its       *)
(* minimum and the initial colour count.                                   *)
(***************************************************************************)
SliderStops == {SliderMin, DefaultColorCount}
ImageFiles == {"photo", "transparent", "corrupt", "sliver"}
OtherFiles == {"notes"}

fileImage(f) ==
    CASE f = "photo" ->
            [ok |-> TRUE, width |-> 4, height |-> 1,
             data |-> << <<255, 0, 0, 255>>, <<0, 0, 255, 255>>,
                         <<128, 64, 64, 255>>, <<128, 64, 64, 255>> >>]
      [] f = "transparent" ->
            [ok |-> TRUE, width |-> 1, height |-> 1, data |-> << <<0, 0, 0, 0>> >>]
      [] f = "sliver" ->
            [ok |-> TRUE, width |-> 1, height |-> 501, data |-> <<>>]
      [] OTHER -> NoImage

\* Whether the promise of request rq ever settles, and the call settling it.
\* A URL revoked after img.src was set still loads: the load had started.
settles(rq) ==
    LET img == fileImage(urls[rq.url])
    IN  ~img.ok \/ ~getImageDataThrows(img.width, img.height)

outcome(rq) ==
    LET img == fileImage(urls[rq.url])
    IN  IF img.ok THEN onload(img.data, rq.colorCount).calls[1]
        ELSE Reject(FailedToLoad)

cleanupUrl(url) == IF url # 0 THEN revoked \cup {url} ELSE revoked

InitApp ==
    /\ pc = "app"
    /\ colorCount = DefaultColorCount
    /\ pipelineIdle
    /\ appIdle

\* extractPalette(url) up to its await: lines 47-51
extractPalette(url) ==
    /\ isExtracting' = TRUE
    /\ error' = ""
    /\ requests' = Append(requests, [url |-> url, colorCount |-> colorCount])
    /\ inflight' = inflight \cup {Len(requests) + 1}

\* handlePick(f) with no file: lines 28-29
HandlePickNothing ==
    /\ error' = ""
    /\ UNCHANGED <<imageUrl, colors, isExtracting, requests, inflight, urls, revoked>>
    /\ UNCHANGED <<pc, colorCount>>
    /\ UNCHANGED pipelineVars

\* handlePick(f) with a file that is not an image: lines 28-34
HandlePickNotImage ==
    /\ \E f \in OtherFiles : error' = "Please choose an image file."
    /\ UNCHANGED <<imageUrl, colors, isExtracting, requests, inflight, urls, revoked>>
    /\ UNCHANGED <<pc, colorCount>>
    /\ UNCHANGED pipelineVars

\* handlePick(f) with an image file: lines 28-43
HandlePick ==
    /\ Len(requests) < MaxRequests
    /\ \E f \in ImageFiles :
          /\ revoked' = cleanupUrl(imageUrl)
          /\ colors' = <<>>
          /\ urls' = Append(urls, f)
          /\ imageUrl' = Len(urls) + 1
          /\ extractPalette(Len(urls) + 1)
    /\ UNCHANGED <<pc, colorCount>>
    /\ UNCHANGED pipelineVars

\* handleReextract, behind its button's disabled={!imageUrl || isExtracting}
HandleReextract ==
    /\ Len(requests) < MaxRequests
    /\ ~isExtracting
    /\ imageUrl # 0
    /\ extractPalette(imageUrl)
    /\ UNCHANGED <<imageUrl, colors, urls, revoked>>
    /\ UNCHANGED <<pc, colorCount>>
    /\ UNCHANGED pipelineVars

\* the slider's onChange: setColorCount(Number(e.target.value))
SetColorCount ==
    /\ \E v \in SliderStops : v # colorCount /\ colorCount' = v
    /\ UNCHANGED pc
    /\ UNCHANGED pipelineVars
    /\ UNCHANGED appVars

\* clearAll, behind its button's disabled={!imageUrl && colors.length === 0}
ClearAll ==
    /\ ~(imageUrl = 0 /\ Len(colors) = 0)
    /\ error' = ""
    /\ revoked' = cleanupUrl(imageUrl)
    /\ imageUrl' = 0
    /\ colors' = <<>>
    /\ UNCHANGED <<isExtracting, requests, inflight, urls>>
    /\ UNCHANGED <<pc, colorCount>>
    /\ UNCHANGED pipelineVars

\* extractPalette after its await, lines 52-57: the promise of one request
\* settles; try sets the colors, catch sets the error, finally clears
\* isExtracting.
Complete ==
    /\ \E id \in inflight :
          /\ settles(requests[id])
          /\ LET out == outcome(requests[id])
             IN  IF out.kind = "resolve"
                 THEN colors' = out.value /\ error' = error
                 ELSE error' = out.message /\ colors' = colors
          /\ isExtracting' = FALSE
          /\ inflight' = inflight \ {id}
    /\ UNCHANGED <<imageUrl, requests, urls, revoked>>
    /\ UNCHANGED <<pc, colorCount>>
    /\ UNCHANGED pipelineVars

NextApp ==
    \/ HandlePickNothing
    \/ HandlePickNotImage
    \/ HandlePick
    \/ HandleReextract
    \/ SetColorCount
    \/ ClearAll
    \/ Complete

SpecApp == InitApp /\ [][NextApp]_vars

NextRequests == HandlePick \/ HandleReextract \/ SetColorCount \/ Complete

SpecRequests == InitApp /\ [][NextRequests]_vars

(***************************************************************************)
(* Properties.  The helpers below restate what the claims say, in terms of *)
(* the inputs and outputs alone; they do not use the operators above.      *)
(***************************************************************************)
SetMax(S) == CHOOSE x \in S : \A y \in S : y <= x
SetMin(S) == CHOOSE x \in S : \A y \in S : x <= y
Pow2(k) == 2^k
Occurrences(s, x) == Cardinality({i \in 1..Len(s) : s[i] = x})
SamePixels(s, t) ==
    /\ Len(s) = Len(t)
    /\ \A i \in 1..Len(s) : Occurrences(s, s[i]) = Occurrences(t, s[i])
RGBOf(s) == [i \in 1..Len(s) |-> <<s[i][1], s[i][2], s[i][3]>>]

\* a >= 128 and 5 <= (r + g + b) / 3 <= 250, i.e. 15 <= r + g + b <= 750
ValidPixel(p) ==
    /\ p[4] >= 128
    /\ 15 <= p[1] + p[2] + p[3]
    /\ p[1] + p[2] + p[3] <= 750

(***************************************************************************)
(* C5.  getPixels keeps a pixel (r, g, b, a) if and only if a >= 128 and   *)
(* 15 <= r + g + b <= 750: the list it returns holds, in buffer order, the *)
(* r, g, b of exactly those pixels.  So brightness exactly 5 and exactly   *)
(* 250 are kept, and an opaque (128, 128, 128) buffer is not left empty.   *)
(***************************************************************************)
C5_KeepsExactlyValidPixels ==
    pc = "done" =>
        /\ RGBOf(pixels) = RGBOf(SelectSeq(image.data, ValidPixel))
        /\ (\A i \in 1..Len(image.data) : image.data[i] = <<128, 128, 128, 255>>)
              => Len(pixels) = Len(image.data)

\* Both limits met in one buffer: brightness 5 and brightness 250, both kept.
C5_Witness ==
    /\ pc = "done"
    /\ image.data = << <<5, 5, 5, 128>>, <<250, 250, 250, 255>> >>
    /\ Len(pixels) = 2

RECURSIVE SumCounts(_)
SumCounts(bs) == IF bs = <<>> THEN 0 ELSE Head(bs).count + SumCounts(Tail(bs))

(***************************************************************************)
(* C7.  For a non-empty pixel list of size n and any depth >= 0 the        *)
(* buckets of medianCut partition the input: every count is >= 1, the      *)
(* counts sum to n, and every splitting call cuts its sorted list at       *)
(* floor(size / 2) into a lower and an upper half that together hold every *)
(* pixel it was given exactly once.                                        *)
(***************************************************************************)
C7_BucketsPartitionInput ==
    (pc = "done" /\ Len(pixels) >= 1) =>
        /\ \A i \in 1..Len(buckets) : buckets[i].count >= 1
        /\ SumCounts(buckets) = Len(pixels)
        /\ \A i \in 1..Len(steps) :
              /\ steps[i].mid = Len(steps[i].given) \div 2
              /\ Len(steps[i].lower) = steps[i].mid
              /\ SamePixels(steps[i].lower \o steps[i].upper, steps[i].given)

\* An odd size split 1 + 2, and further down a single pixel split 0 + 1.
C7_Witness ==
    /\ pc = "done"
    /\ Len(pixels) = 3
    /\ depth >= 2
    /\ Len(buckets) = 3
    /\ \E i \in 1..Len(steps) : steps[i].lower = <<>> /\ Len(steps[i].upper) = 1

RangeOf(pxs, c) ==
    SetMax({pxs[i][c] : i \in 1..Len(pxs)}) - SetMin({pxs[i][c] : i \in 1..Len(pxs)})

SortedOn(s, c) == \A i \in 1..(Len(s) - 1) : s[i][c] <= s[i + 1][c]

(***************************************************************************)
(* C8.  At every splitting call of medianCut the list is sorted by a       *)
(* channel whose range (max - min) is >= the range of each other channel;  *)
(* when several channels share the greatest range, it is the first of      *)
(* them in the order red, green, blue.                                     *)
(***************************************************************************)
C8_GreatestRangeRedGreenBlue ==
    pc = "done" =>
        \A i \in 1..Len(steps) :
            LET st == steps[i] IN
            /\ \A c \in 1..3 : RangeOf(st.given, st.channel) >= RangeOf(st.given, c)
            /\ \A c \in 1..3 : c < st.channel =>
                  RangeOf(st.given, c) < RangeOf(st.given, st.channel)
            /\ SortedOn(st.lower \o st.upper, st.channel)

\* One run with a red / blue tie settled for red, a green / blue tie settled
\* for green, and a call where blue alone has the greatest range.
C8_Witness ==
    /\ pc = "done"
    /\ \E i \in 1..Len(steps) :
          /\ steps[i].channel = 1
          /\ RangeOf(steps[i].given, 1) = RangeOf(steps[i].given, 3)
          /\ RangeOf(steps[i].given, 1) > 0
    /\ \E i \in 1..Len(steps) :
          /\ steps[i].channel = 2
          /\ RangeOf(steps[i].given, 2) = RangeOf(steps[i].given, 3)
    /\ \E i \in 1..Len(steps) : steps[i].channel = 3

(***************************************************************************)
(* C2.  Median cut on a single-colour pixel list (n >= 1 pixels, all with  *)
(* the same r, g, b) at any depth > 0.                                     *)
(***************************************************************************)
SingleColour(pxs) ==
    /\ Len(pxs) >= 1
    /\ \A i \in 1..Len(pxs) : pxs[i] = pxs[1]

\* C2 as claimed: exactly one non-empty bucket, whose r, g, b is the input
\* colour.
C2_AsClaimed_OneBucket ==
    (pc = "done" /\ depth > 0 /\ SingleColour(pixels)) =>
        /\ Len(buckets) = 1
        /\ <<buckets[1].r, buckets[1].g, buckets[1].b>> = RGBOf(pixels)[1]

\* C2 as amended: min(n, 2^depth) non-empty buckets come out, and the r, g, b
\* of every one of them is the input colour exactly (a single bucket only
\* when n = 1).
C2_SingleColourBuckets ==
    (pc = "done" /\ depth > 0 /\ SingleColour(pixels)) =>
        /\ Len(buckets) = SetMin({Len(pixels), Pow2(depth)})
        /\ \A i \in 1..Len(buckets) :
              /\ buckets[i].count >= 1
              /\ <<buckets[i].r, buckets[i].g, buckets[i].b>> = RGBOf(pixels)[1]

\* Three pixels of one colour whose channels differ, cut into more than one
\* bucket.
C2_Witness ==
    /\ pc = "done"
    /\ depth > 0
    /\ SingleColour(pixels)
    /\ Len(pixels) = 3
    /\ pixels[1][1] # pixels[1][2]
    /\ Len(buckets) >= 2

HasValidPixel == \E i \in 1..Len(image.data) : ValidPixel(image.data[i])
NonEmptyBuckets == Cardinality({i \in 1..Len(buckets) : buckets[i].count >= 1})

(***************************************************************************)
(* C1.  For a requested colour count in 3..12 and a buffer with at least   *)
(* one valid pixel, the palette extractColors resolves with has length     *)
(* <= the requested count and <= the number of non-empty buckets medianCut *)
(* produced.                                                               *)
(***************************************************************************)
C1_PaletteLengthBounded ==
    (pc = "returned" /\ colorCount \in SliderMin..SliderMax /\ HasValidPixel) =>
        /\ Resolved
        /\ Len(result) <= colorCount
        /\ Len(result) <= NonEmptyBuckets

\* More buckets than requested colours: the palette is cut to the request.
C1_Witness ==
    /\ pc = "returned"
    /\ colorCount = SliderMin
    /\ HasValidPixel
    /\ NonEmptyBuckets > colorCount
    /\ Len(result) = colorCount

(***************************************************************************)
(* C3.  For a decodable image extractColors settles exactly once: it fails *)
(* with the NoValidPixels error if and only if the filtered pixel list is  *)
(* empty, and then no palette is returned; otherwise it returns a palette  *)
(* with at least one entry.  Stated of the state the load event's handler  *)
(* leaves behind.                                                          *)
(***************************************************************************)
C3_SettlesOnceErrorIffNoValidPixels ==
    (pc # "loading" /\ image.ok) =>
        /\ Len(calls) = 1
        /\ (Rejected /\ calls[1].message = NoValidPixels) <=> ~HasValidPixel
        /\ ~HasValidPixel => ~Resolved
        /\ HasValidPixel => (Resolved /\ Len(result) >= 1)

\* C3 restricted to the images whose canvas keeps both edges >= 1.
C3_HoldsWhenCanvasNotEmpty ==
    (pc # "loading" /\ image.ok /\ ~getImageDataThrows(image.width, image.height)) =>
        /\ Len(calls) = 1
        /\ (Rejected /\ calls[1].message = NoValidPixels) <=> ~HasValidPixel
        /\ ~HasValidPixel => ~Resolved
        /\ HasValidPixel => (Resolved /\ Len(result) >= 1)

RedBlueImage ==
    /\ image.ok
    /\ image.width = 2 /\ image.height = 1
    /\ \/ image.data = << <<255, 0, 0, 255>>, <<0, 0, 255, 255>> >>
       \/ image.data = << <<0, 0, 255, 255>>, <<255, 0, 0, 255>> >>

(***************************************************************************)
(* C6.  A 2x1 opaque image with pixels (255,0,0) and (0,0,255), in either  *)
(* order, with 2 colours requested (depth 3), resolves with exactly two    *)
(* palette entries, whose hexes are #ff0000 and #0000ff.                   *)
(***************************************************************************)
C6_RedBlueExample ==
    (pc = "returned" /\ RedBlueImage /\ colorCount = 2) =>
        /\ depth = 3
        /\ Resolved
        /\ Len(result) = 2
        /\ {result[1].hex, result[2].hex} = {"#ff0000", "#0000ff"}
        /\ result[1].hex # result[2].hex

C6_Witness ==
    /\ pc = "returned"
    /\ RedBlueImage
    /\ image.data[1] = <<255, 0, 0, 255>>
    /\ colorCount = 2
    /\ Len(result) = 2

\* score(x) > score(y), with saturation = <<num, den>>:
\* x.count * (1 + 2 * xn / xd) > y.count * (1 + 2 * yn / yd)
ScoresHigher(x, y) ==
    x.count * (x.saturation[2] + 2 * x.saturation[1]) * y.saturation[2]
        > y.count * (y.saturation[2] + 2 * y.saturation[1]) * x.saturation[2]

RankOf(i) ==
    1 + Cardinality({j \in 1..Len(buckets) :
                        \/ ScoresHigher(buckets[j], buckets[i])
                        \/ /\ ~ScoresHigher(buckets[i], buckets[j])
                           /\ j < i})

(***************************************************************************)
(* C9.  The palette is ordered by non-increasing score, where score =      *)
(* count x (1 + 2 x saturation) of the bucket an entry came from; buckets  *)
(* of equal score keep the order medianCut produced them in; truncation    *)
(* drops exactly the entries ranked after the first colorCount.  So the    *)
(* bucket at position i of medianCut's list has rank 1 + the number of     *)
(* buckets that score higher or score the same and were produced earlier,  *)
(* and the palette is the buckets of rank 1..colorCount in rank order.     *)
(***************************************************************************)
C9_PaletteRankedByScore ==
    (pc = "returned" /\ Resolved) =>
        /\ Len(result) = SetMin({colorCount, Len(buckets)})
        /\ \A i \in 1..Len(buckets) :
              RankOf(i) <= colorCount =>
                  /\ RankOf(i) <= Len(result)
                  /\ <<result[RankOf(i)].r, result[RankOf(i)].g, result[RankOf(i)].b>>
                        = <<buckets[i].r, buckets[i].g, buckets[i].b>>

\* A run where the ranking reorders medianCut's list, a bucket of two pixels
\* is ranked, two buckets of different colours tie, and truncation drops
\* something.
C9_Witness ==
    /\ pc = "returned"
    /\ Resolved
    /\ Len(buckets) > colorCount
    /\ ranked # buckets
    /\ \E i \in 1..Len(buckets) : buckets[i].count >= 2
    /\ \E i, j \in 1..Len(buckets) :
          /\ i < j
          /\ ~ScoresHigher(buckets[i], buckets[j])
          /\ ~ScoresHigher(buckets[j], buckets[i])
          /\ <<buckets[i].r, buckets[i].g, buckets[i].b>>
                # <<buckets[j].r, buckets[j].g, buckets[j].b>>

ShowsLatestOutcome ==
    LET out == outcome(requests[Len(requests)])
    IN  IF out.kind = "resolve"
        THEN colors = out.value /\ error = ""
        ELSE error = out.message /\ colors = <<>>

(***************************************************************************)
(* C4.  When a new extraction request is issued (handlePick or             *)
(* handleReextract) while an earlier one is in flight, then once all have  *)
(* settled the palette and the error shown are the outcome of the most     *)
(* recently issued request, never that of a stale one: after a resolve,    *)
(* its palette and no error; after a reject, its message and no palette.   *)
(* Checked over the runs made of request issues and completions alone.     *)
(***************************************************************************)
C4_LatestRequestWins ==
    (requests # <<>> /\ inflight = {}) => ShowsLatestOutcome

(***************************************************************************)
(* C10.  isExtracting is true in every state in which at least one         *)
(* extractColors request is still in flight, and false once every issued   *)
(* request has settled.                                                    *)
(***************************************************************************)
C10_IsExtractingWhileInFlight ==
    /\ inflight # {} => isExtracting
    /\ inflight = {} => ~isExtracting

====
